---- MODULE Spec2Model ----
(***************************************************************************)
(* A model of the MultiRaft repository: the Raft replication engine        *)
(* (append.go, raft.go, log.go) and the key-value server layered on it     *)
(* (kvraft/server.go).                                                     *)
(*                                                                         *)
(* Every handler that runs under rf.mu (or kv.mu) is one atomic action.    *)
(* The RPC transport is a bounded set of messages: a message may be lost,  *)
(* a request built again is a duplicate, and any message in the set may be *)
(* handled next, which is a reordering.                                    *)
(***************************************************************************)
EXTENDS Integers, Sequences, FiniteSets, TLC

\* ------------------------------------------------------------------ bounds
\* The elections started in a run; the highest log index Start may create in
\* the runs with elections, in the runs of an elected cluster and in the fair
\* runs; and the RPC messages the transport holds at once.
MaxElections == 2
MaxLogElect == 1
MaxLog == 2
MaxLogLive == 1
MaxInFlight == 2
MaxCalls == 3
MaxCallsWait == 2

\* ------------------------------------------------------- program constants
Peers == {0, 1, 2}
Commands == {"x"}
StateFollower == "Follower"
StateCandidate == "Candidate"
StateLeader == "Leader"
NoVote == 0 - 1
Nil == "nil"
ApplyChSize == 1

VARIABLES
    state,          \* rf.state
    currentTerm,    \* rf.currentTerm
    votedFor,       \* rf.votedFor
    raftLog,        \* rf.raftLog.logs, raftLog[n][1] being the dummy entry
    commitIndex,    \* rf.commitIndex
    nextIndex,      \* rf.nextIndex
    matchIndex,     \* rf.matchIndex
    votes,          \* the votes a candidate has collected in its election
    persisted,      \* what rf.persist() saved last
    panicked,       \* the nodes whose process a panic has ended
    elections,      \* the elections started so far
    messages,       \* RPC requests and replies in flight
    replPc,         \* where each appendThread(peer) of each node stands
    lastApplied,    \* rf.lastApplied
    applierPc,      \* where each node's applier stands
    applierCommit,  \* the applier's local commitIndex
    applierEntries, \* the applier's local entries not yet pushed
    delivered,      \* every ApplyMsg pushed on rf.applyCh, in order
    startRet,       \* what the last call of Start returned
    storage,        \* kv.storage of the KV server on node 0
    latestTime,     \* kv.latestTime
    waitChannel,    \* the keys of kv.waitChannel
    kvLastApplied,  \* kv.lastApplied
    kvRead,         \* the messages listenApplyCh has received from kv.applyCh
    calls,          \* the calls of Command, calls[seq] being the call of op.Seq = seq
    effects,        \* the (ClientId, CommandId) of every change of kv.storage, in order
    rfMu,           \* the goroutine that holds rf.mu of the KV server's node
    kvMu,           \* the goroutine that holds kv.mu
    loopPc          \* where listenApplyCh stands in its loop

raftVars == <<state, currentTerm, votedFor, raftLog, commitIndex, nextIndex,
              matchIndex, votes, persisted, panicked, elections>>
applierVars == <<lastApplied, applierPc, applierCommit, applierEntries, delivered>>
lockVars == <<rfMu, kvMu, loopPc>>
kvVars == <<storage, latestTime, waitChannel, kvLastApplied, kvRead, calls, effects, lockVars>>
vars == <<raftVars, messages, replPc, applierVars, startRet, kvVars>>

\* ---------------------------------------------------------------- raftLog
Entry(index, term, command) == [Index |-> index, Term |-> term, Command |-> command]

newLogs == <<Entry(0, 0, Nil)>>

dummyIndex(l) == l[1].Index

lastIndex(l) == l[Len(l)].Index

lastTerm(l) == l[Len(l)].Term

lastEntry(l) == l[Len(l)]

\* convertIndex panics when index < dummyIndex; callers guard that case.
convertIndex(l, index) == index - dummyIndex(l)

len(l) == Len(l)

\* Go slices are 0-based: logs[k] is l[k + 1].
InRange(l, index) == convertIndex(l, index) >= 0 /\ convertIndex(l, index) < len(l)

getEntry(l, index) == l[convertIndex(l, index) + 1]

append(l, ents) == l \o ents

sliceFrom(l, low) == SubSeq(l, convertIndex(l, low) + 1, Len(l))

sliceTo(l, high) == SubSeq(l, 1, convertIndex(l, high))

trunc(l, high) == sliceTo(l, high)

slice(l, low, high) == SubSeq(l, convertIndex(l, low) + 1, convertIndex(l, high))

matchLog(l, requestPrevTerm, requestPrevIndex) ==
    IF requestPrevIndex > lastIndex(l)
    THEN FALSE
    ELSE LET targetLog == getEntry(l, requestPrevIndex)
         IN  requestPrevIndex = targetLog.Index /\ requestPrevTerm = targetLog.Term

\* isLogUpToDate with the two logs in each other's place.
isLogUpToDateSwapped(l, requestLastTerm, requestLastIndex) ==
    LET mylastLog == lastEntry(l)
    IN  \/ mylastLog.Term > requestLastTerm
        \/ (mylastLog.Term = requestLastTerm /\ mylastLog.Index >= requestLastIndex)

isLogUpToDate(l, requestLastTerm, requestLastIndex) ==
    LET mylastLog == lastEntry(l)
    IN  \/ requestLastTerm > mylastLog.Term
        \/ (mylastLog.Term = requestLastTerm /\ requestLastIndex >= mylastLog.Index)

Min(a, b) == IF a < b THEN a ELSE b

Max(a, b) == IF a > b THEN a ELSE b

\* --------------------------------------------------------------- messages
AppendEntriesArgs(term, leader, prevIndex, prevTerm, entries, leaderCommit) ==
    [Term |-> term, LeaderId |-> leader, PrevLogIndex |-> prevIndex,
     PrevLogTerm |-> prevTerm, Entries |-> entries, LeaderCommit |-> leaderCommit]

AppendEntriesReply(term, success, conflictIndex) ==
    [Term |-> term, Success |-> success, ConflictIndex |-> conflictIndex]

RequestVoteArgs(term, candidate, lastLogIndex, lastLogTerm) ==
    [Term |-> term, CandidateId |-> candidate, LastLogIndex |-> lastLogIndex,
     LastLogTerm |-> lastLogTerm]

RequestVoteReply(term, granted) == [Term |-> term, VoteGranted |-> granted]

\* The transport holds at most MaxInFlight messages; what does not fit is
\* lost at once. Drop loses a message in flight, a handler takes its request
\* off the transport, and a request the sender builds again is a duplicate.
Transmit(base, new) ==
    LET room == MaxInFlight - Cardinality(base)
        fresh == new \ base
    IN  IF Cardinality(fresh) <= room
        THEN messages' = base \cup fresh
        ELSE \E S \in SUBSET fresh :
                /\ Cardinality(S) = Max(room, 0)
                /\ messages' = base \cup S

Send(m) == Transmit(messages, {m})

Answer(req, m) == Transmit(messages \ {req}, {m})

Taken(req) == messages' = messages \ {req}

Persist(n, term, vote, l) ==
    persisted' = [persisted EXCEPT ![n] = [currentTerm |-> term, votedFor |-> vote, raftLog |-> l]]

Alive(n) == n \notin panicked

\* tryAppendCond[peer].Signal(): wakes appendThread(peer) when it waits.
Signal(rp, n, peer) ==
    IF rp[n][peer] = "wait" THEN [rp EXCEPT ![n][peer] = "check"] ELSE rp

\* BroadcastAppend leaving its loop at rf.me instead of skipping it.
BroadcastAppendBreak(rp, n) ==
    [rp EXCEPT ![n] = [p \in Peers |-> IF p < n /\ rp[n][p] = "wait" THEN "check" ELSE rp[n][p]]]

\* BroadcastAppend(Append): a Signal for every peer but rf.me.
BroadcastAppend(rp, n) ==
    [rp EXCEPT ![n] = [p \in Peers |-> IF p # n /\ rp[n][p] = "wait" THEN "check" ELSE rp[n][p]]]

\* --------------------------------------------------------------- KV state
OK == "OK"
ErrNoKey == "ErrNoKey"
ErrWrongLeader == "ErrWrongLeader"
ErrTimeout == " ErrTimeout"
Putt == "Put"
Appendd == "Append"
Gett == "Get"

Keys == {"k"}
Clients == {1, 2}

\* A value is the sequence of its characters.
NoValue == <<>>

\* StartKVServer: empty storage, dedupe table and wait-channel map.
StartKVServer ==
    /\ storage = [k \in Keys |-> [exist |-> FALSE, value |-> NoValue]]
    /\ latestTime = [c \in Clients |-> [exist |-> FALSE, id |-> 0]]
    /\ waitChannel = {}
    /\ kvLastApplied = 0
    /\ kvRead = 0
    /\ calls = <<>>
    /\ effects = <<>>
    /\ rfMu = "free"
    /\ kvMu = "free"
    /\ loopPc = "recv"

\* ------------------------------------------------------------------- Init
InitReplPc == [n \in Peers |-> [p \in Peers |-> IF p = n THEN "none" ELSE "check"]]

Init ==
    /\ state = [n \in Peers |-> StateFollower]
    /\ currentTerm = [n \in Peers |-> 0]
    /\ votedFor = [n \in Peers |-> NoVote]
    /\ raftLog = [n \in Peers |-> newLogs]
    /\ commitIndex = [n \in Peers |-> 0]
    /\ nextIndex = [n \in Peers |-> [p \in Peers |-> 0]]
    /\ matchIndex = [n \in Peers |-> [p \in Peers |-> 0]]
    /\ votes = [n \in Peers |-> {}]
    /\ persisted = [n \in Peers |-> [currentTerm |-> 0, votedFor |-> NoVote, raftLog |-> newLogs]]
    /\ panicked = {}
    /\ elections = 0
    /\ messages = {}
    /\ replPc = InitReplPc
    /\ lastApplied = [n \in Peers |-> 0]
    /\ applierPc = [n \in Peers |-> "idle"]
    /\ applierCommit = [n \in Peers |-> 0]
    /\ applierEntries = [n \in Peers |-> <<>>]
    /\ delivered = [n \in Peers |-> <<>>]
    /\ startRet = <<>>
    /\ StartKVServer

\* -------------------------------------------------------- role transitions
\* rf.ChangeState(state): sets the role.
ChangeState(n, s) == state' = [state EXCEPT ![n] = s]

\* On becoming Leader: nextIndex[p] := lastIndex + 1 and matchIndex[p] := 0.
LeaderNextIndex(n) == [p \in Peers |-> lastIndex(raftLog[n]) + 1]

LeaderMatchIndex(n) == [p \in Peers |-> 0]

\* --------------------------------------------------------------- election
\* The election timer fired on a node that is not Leader (ticker): the node
\* becomes Candidate and asks every other peer for its vote. The peers being
\* interchangeable, the k-th election is started by one of the nodes 0..k-1.
StartElection(n) ==
    /\ Alive(n)
    /\ state[n] # StateLeader
    /\ elections < MaxElections
    /\ n <= elections
    /\ elections' = elections + 1
    /\ ChangeState(n, StateCandidate)
    /\ currentTerm' = [currentTerm EXCEPT ![n] = currentTerm[n] + 1]
    /\ votedFor' = [votedFor EXCEPT ![n] = n]
    /\ votes' = [votes EXCEPT ![n] = {n}]
    /\ Persist(n, currentTerm[n] + 1, n, raftLog[n])
    /\ Transmit(messages,
         {[mtype |-> "RequestVote", to |-> p,
           args |-> RequestVoteArgs(currentTerm[n] + 1, n, lastIndex(raftLog[n]),
                                    lastTerm(raftLog[n]))] : p \in Peers \ {n}})
    /\ UNCHANGED <<raftLog, commitIndex, nextIndex, matchIndex, panicked, replPc>>

VoteGranted(n, args, vote) ==
    /\ vote \in {NoVote, args.CandidateId}
    /\ isLogUpToDate(raftLog[n], args.LastLogTerm, args.LastLogIndex)

HandleRequestVote(m) ==
    LET n == m.to
        args == m.args
    IN  /\ m.mtype = "RequestVote"
        /\ Alive(n)
        /\ IF args.Term < currentTerm[n]
           THEN /\ Answer(m, [mtype |-> "RequestVoteReply", to |-> args.CandidateId, from |-> n,
                              args |-> args, reply |-> RequestVoteReply(currentTerm[n], FALSE)])
                /\ UNCHANGED raftVars
           ELSE LET higher == args.Term > currentTerm[n]
                    vote == IF higher THEN NoVote ELSE votedFor[n]
                    granted == VoteGranted(n, args, vote)
                    newVote == IF granted THEN args.CandidateId ELSE vote
                IN  /\ currentTerm' = [currentTerm EXCEPT ![n] = args.Term]
                    /\ IF higher THEN ChangeState(n, StateFollower) ELSE UNCHANGED state
                    /\ votedFor' = [votedFor EXCEPT ![n] = newVote]
                    /\ Persist(n, args.Term, newVote, raftLog[n])
                    /\ Answer(m, [mtype |-> "RequestVoteReply", to |-> args.CandidateId, from |-> n,
                                  args |-> args, reply |-> RequestVoteReply(args.Term, granted)])
                    /\ UNCHANGED <<raftLog, commitIndex, nextIndex, matchIndex, votes, panicked,
                                   elections>>
        /\ UNCHANGED replPc

ProcessRequestVoteReply(m) ==
    LET n == m.to
        args == m.args
        reply == m.reply
    IN  /\ m.mtype = "RequestVoteReply"
        /\ Alive(n)
        /\ IF reply.Term > currentTerm[n]
           THEN /\ currentTerm' = [currentTerm EXCEPT ![n] = reply.Term]
                /\ votedFor' = [votedFor EXCEPT ![n] = NoVote]
                /\ ChangeState(n, StateFollower)
                /\ Persist(n, reply.Term, NoVote, raftLog[n])
                /\ UNCHANGED <<raftLog, commitIndex, nextIndex, matchIndex, votes, panicked,
                               elections>>
           ELSE IF state[n] = StateCandidate /\ args.Term = currentTerm[n] /\ reply.VoteGranted
           THEN LET got == votes[n] \cup {m.from}
                IN  /\ votes' = [votes EXCEPT ![n] = got]
                    /\ IF 2 * Cardinality(got) > Cardinality(Peers)
                       THEN /\ ChangeState(n, StateLeader)
                            /\ nextIndex' = [nextIndex EXCEPT ![n] = LeaderNextIndex(n)]
                            /\ matchIndex' = [matchIndex EXCEPT ![n] = LeaderMatchIndex(n)]
                       ELSE UNCHANGED <<state, nextIndex, matchIndex>>
                    /\ UNCHANGED <<currentTerm, votedFor, raftLog, commitIndex, persisted,
                                   panicked, elections>>
           ELSE UNCHANGED raftVars
        /\ Taken(m)
        /\ UNCHANGED replPc

\* ------------------------------------------------------------- replication
\* appendOneRound up to the send: what a Leader builds under the read lock.
\* The reply, when one comes, is processed by processAppendEntriesReply.
appendOneRound(n, peer) ==
    IF state[n] # StateLeader
    THEN UNCHANGED <<raftVars, messages>>
    ELSE LET l == raftLog[n]
             prev == nextIndex[n][peer] - 1
             prevLogIndex == IF prev > lastIndex(l) THEN lastIndex(l) + 1 ELSE prev
         IN  IF prev < dummyIndex(l) \/ ~InRange(l, prevLogIndex)
             THEN \* panic("weird"), or getEntry indexing past the slice
                  /\ panicked' = panicked \cup {n}
                  /\ UNCHANGED <<state, currentTerm, votedFor, raftLog, commitIndex, nextIndex,
                                 matchIndex, votes, persisted, elections, messages>>
             ELSE /\ Send([mtype |-> "AppendEntries", to |-> peer,
                           args |-> AppendEntriesArgs(currentTerm[n], n, prevLogIndex,
                                                      getEntry(l, prevLogIndex).Term,
                                                      sliceFrom(l, prevLogIndex + 1),
                                                      commitIndex[n])])
                  /\ UNCHANGED raftVars

\* The ticker testing rf.state != StateLeader before it broadcasts.
HeartbeatNotLeader(n, peer) ==
    /\ Alive(n)
    /\ peer # n
    /\ state[n] # StateLeader
    /\ appendOneRound(n, peer)
    /\ UNCHANGED replPc

\* The heartbeat timer fired on a Leader (ticker), BroadcastAppend(HeartBeat)
\* started one appendOneRound per peer, and this one took the read lock.
Heartbeat(n, peer) ==
    /\ Alive(n)
    /\ peer # n
    /\ state[n] = StateLeader
    /\ appendOneRound(n, peer)
    /\ UNCHANGED replPc

\* advanceCommitIndexForLeader scans from lastIndex down to commitIndex + 1
\* and commits the first index that passes.
Replicated(n, mi, i) == Cardinality({j \in Peers : j # n /\ mi[j] >= i})

\* CanCommit without the test of the entry's term.
CanCommitAnyTerm(n, mi, i) == Replicated(n, mi, i) + 1 > Cardinality(Peers) \div 2

CanCommit(n, mi, i) ==
    /\ Replicated(n, mi, i) + 1 > Cardinality(Peers) \div 2
    /\ getEntry(raftLog[n], i).Term = currentTerm[n]

RECURSIVE CommitScan(_, _, _)
CommitScan(n, mi, i) ==
    IF i > commitIndex[n]
    THEN IF CanCommit(n, mi, i) THEN i ELSE CommitScan(n, mi, i - 1)
    ELSE commitIndex[n]

advanceCommitIndexForLeader(n, mi) ==
    IF state[n] # StateLeader
    THEN commitIndex[n]
    ELSE CommitScan(n, mi, lastIndex(raftLog[n]))

\* ReplyTermHigher taking any other term for a higher one.
ReplyTermDiffers(n, reply) == reply.Term # currentTerm[n]

ReplyTermHigher(n, reply) == reply.Term > currentTerm[n]

ReplyCurrent(n, peer, args, reply) ==
    /\ reply.Term = currentTerm[n]
    /\ state[n] = StateLeader
    /\ args.Term = currentTerm[n]
    /\ args.PrevLogIndex = nextIndex[n][peer] - 1

processAppendEntriesReply(m) ==
    LET n == m.to
        peer == m.from
        args == m.args
        reply == m.reply
    IN  /\ m.mtype = "AppendEntriesReply"
        /\ Alive(n)
        /\ IF ReplyTermHigher(n, reply)
           THEN /\ currentTerm' = [currentTerm EXCEPT ![n] = reply.Term]
                /\ votedFor' = [votedFor EXCEPT ![n] = NoVote]
                /\ ChangeState(n, StateFollower)
                /\ Persist(n, reply.Term, NoVote, raftLog[n])
                /\ UNCHANGED <<raftLog, commitIndex, nextIndex, matchIndex, votes, panicked,
                               elections, replPc>>
           ELSE IF ReplyCurrent(n, peer, args, reply)
           THEN /\ IF reply.Success
                   THEN LET newNext == Len(args.Entries) + args.PrevLogIndex + 1
                            newMatch == Len(args.Entries) + args.PrevLogIndex
                            mi == [matchIndex[n] EXCEPT ![peer] = Max(@, newMatch)]
                        IN  /\ nextIndex' = [nextIndex EXCEPT ![n][peer] = Max(@, newNext)]
                            /\ matchIndex' = [matchIndex EXCEPT ![n] = mi]
                            /\ commitIndex' = [commitIndex EXCEPT
                                                 ![n] = advanceCommitIndexForLeader(n, mi)]
                   ELSE /\ nextIndex' = [nextIndex EXCEPT ![n][peer] = reply.ConflictIndex]
                        /\ UNCHANGED <<commitIndex, matchIndex>>
                /\ replPc' = IF nextIndex'[n][peer] # lastIndex(raftLog[n]) + 1
                             THEN Signal(replPc, n, peer)
                             ELSE replPc
                /\ UNCHANGED <<state, currentTerm, votedFor, raftLog, votes, persisted, panicked,
                               elections>>
           ELSE UNCHANGED <<raftVars, replPc>>
        /\ Taken(m)

\* BackUp walking down to the dummy index.
RECURSIVE BackUpToDummy(_, _, _)
BackUpToDummy(l, index, abandondRound) ==
    IF index > dummyIndex(l) /\ getEntry(l, index).Term = abandondRound
    THEN BackUpToDummy(l, index - 1, abandondRound)
    ELSE index

\* The follower's walk back over the term of its entry at PrevLogIndex.
RECURSIVE BackUp(_, _, _)
BackUp(l, index, abandondRound) ==
    IF index > dummyIndex(l) + 1 /\ getEntry(l, index).Term = abandondRound
    THEN BackUp(l, index - 1, abandondRound)
    ELSE index

ConflictIndex(l, args) ==
    IF args.PrevLogIndex > lastIndex(l)
    THEN lastIndex(l) + 1
    ELSE BackUp(l, args.PrevLogIndex, getEntry(l, args.PrevLogIndex).Term)

\* ScanEntries without the test of the terms: only the entries past the end of
\* the log are appended.
ScanEntriesPastEnd(l, entries, k) ==
    append(l, SelectSeq(SubSeq(entries, k, Len(entries)), LAMBDA e : e.Index > lastIndex(l)))

\* ScanEntries cutting the log at the first entry of the request, whatever
\* the log holds there.
ScanEntriesCutFirst(l, entries, k) ==
    IF k > Len(entries)
    THEN l
    ELSE append(trunc(l, entries[k].Index), SubSeq(entries, k, Len(entries)))

\* The per-entry conflict scan: truncate at the first entry that is past the
\* log or differs in term, and append the entries from there.
RECURSIVE ScanEntries(_, _, _)
ScanEntries(l, entries, k) ==
    IF k > Len(entries)
    THEN l
    ELSE IF convertIndex(l, entries[k].Index) >= len(l)
            \/ getEntry(l, entries[k].Index).Term # entries[k].Term
         THEN append(trunc(l, entries[k].Index), SubSeq(entries, k, Len(entries)))
         ELSE ScanEntries(l, entries, k + 1)

\* AppendNewEntries without the scan: cut the log after PrevLogIndex and append
\* whatever the request carries.
AppendNewEntriesTruncate(l, args) == append(trunc(l, args.PrevLogIndex + 1), args.Entries)

AppendNewEntries(l, args) == ScanEntries(l, args.Entries, 1)

\* FollowerCommit committing all the follower holds.
FollowerCommitAll(n, args, l) ==
    IF args.LeaderCommit > commitIndex[n]
    THEN lastIndex(l)
    ELSE commitIndex[n]

\* FollowerCommit without the test LeaderCommit > commitIndex.
FollowerCommitUnguarded(n, args, l) == Min(args.LeaderCommit, lastIndex(l))

\* FollowerCommit bounded by the follower's own commitIndex.
FollowerCommitOwn(n, args, l) ==
    IF args.LeaderCommit > commitIndex[n]
    THEN Min(commitIndex[n], lastIndex(l))
    ELSE commitIndex[n]

FollowerCommit(n, args, l) ==
    IF args.LeaderCommit > commitIndex[n]
    THEN Min(args.LeaderCommit, lastIndex(l))
    ELSE commitIndex[n]

\* RequestTermHigher with the comparison turned round.
RequestTermLower(n, args) == args.Term < currentTerm[n]

\* RequestTermHigher taking a request of the node's own term for a new term.
RequestTermNotLower(n, args) == args.Term >= currentTerm[n]

RequestTermHigher(n, args) == args.Term > currentTerm[n]

HandleAppendEntries(m) ==
    LET n == m.to
        args == m.args
        l == raftLog[n]
        Reply(r) == Answer(m, [mtype |-> "AppendEntriesReply", to |-> args.LeaderId,
                               from |-> n, args |-> args, reply |-> r])
    IN  /\ m.mtype = "AppendEntries"
        /\ Alive(n)
        /\ IF args.Term < currentTerm[n]
           THEN /\ Reply(AppendEntriesReply(currentTerm[n], FALSE, 0))
                /\ Persist(n, currentTerm[n], votedFor[n], l)
                /\ UNCHANGED <<state, currentTerm, votedFor, raftLog, commitIndex, nextIndex,
                               matchIndex, votes, panicked, elections>>
           ELSE LET term == args.Term
                    vote == IF RequestTermHigher(n, args) THEN NoVote ELSE votedFor[n]
                IN  /\ currentTerm' = [currentTerm EXCEPT ![n] = term]
                    /\ votedFor' = [votedFor EXCEPT ![n] = vote]
                    /\ ChangeState(n, StateFollower)
                    /\ IF args.PrevLogIndex < dummyIndex(l)
                       THEN \* panic("weird2"); the deferred persist still runs
                            /\ panicked' = panicked \cup {n}
                            /\ Persist(n, term, vote, l)
                            /\ Taken(m)
                            /\ UNCHANGED <<raftLog, commitIndex>>
                       ELSE IF ~matchLog(l, args.PrevLogTerm, args.PrevLogIndex)
                       THEN /\ Reply(AppendEntriesReply(term, FALSE, ConflictIndex(l, args)))
                            /\ Persist(n, term, vote, l)
                            /\ UNCHANGED <<raftLog, commitIndex, panicked>>
                       ELSE LET newLog == AppendNewEntries(l, args)
                            IN  /\ raftLog' = [raftLog EXCEPT ![n] = newLog]
                                /\ commitIndex' = [commitIndex EXCEPT
                                                     ![n] = FollowerCommit(n, args, newLog)]
                                /\ Persist(n, term, vote, newLog)
                                /\ Reply(AppendEntriesReply(term, TRUE, 0))
                                /\ UNCHANGED panicked
                    /\ UNCHANGED <<nextIndex, matchIndex, votes, elections>>
        /\ UNCHANGED replPc

\* The transport loses a message.
Drop(m) ==
    /\ messages' = messages \ {m}
    /\ UNCHANGED <<raftVars, replPc>>

\* ------------------------------------------------------------------ Start
\* The bound on the log index a run may create.
CanGrow(n, max) == lastIndex(raftLog[n]) < max

StartReturn(n) ==
    IF state[n] # StateLeader
    THEN [node |-> n, index |-> 0 - 1, term |-> 0 - 1, isLeader |-> FALSE]
    ELSE [node |-> n, index |-> lastIndex(raftLog[n]) + 1, term |-> currentTerm[n],
          isLeader |-> TRUE]

\* Start without the call of rf.persist().
StartUnsaved(n, command) ==
    /\ Alive(n)
    /\ IF state[n] # StateLeader
       THEN UNCHANGED <<raftLog, replPc>>
       ELSE /\ raftLog' = [raftLog EXCEPT ![n] =
                             append(@, <<Entry(lastIndex(raftLog[n]) + 1, currentTerm[n],
                                               command)>>)]
            /\ replPc' = BroadcastAppend(replPc, n)
    /\ UNCHANGED <<state, currentTerm, votedFor, commitIndex, nextIndex, matchIndex, votes,
                   persisted, panicked, elections, messages>>

Start(n, command) ==
    /\ Alive(n)
    /\ IF state[n] # StateLeader
       THEN UNCHANGED <<raftLog, persisted, replPc>>
       ELSE /\ LET newLog == Entry(lastIndex(raftLog[n]) + 1, currentTerm[n], command)
                   l == append(raftLog[n], <<newLog>>)
               IN  /\ raftLog' = [raftLog EXCEPT ![n] = l]
                   /\ Persist(n, currentTerm[n], votedFor[n], l)
            /\ replPc' = BroadcastAppend(replPc, n)
    /\ UNCHANGED <<state, currentTerm, votedFor, commitIndex, nextIndex, matchIndex, votes,
                   panicked, elections, messages>>

\* ------------------------------------------------------------ appendThread
needAppend(n, peer) ==
    state[n] = StateLeader /\ matchIndex[n][peer] < lastIndex(raftLog[n])

\* The replicator evaluates needAppend(peer) under the read lock.
replCheck(n, peer) ==
    /\ Alive(n)
    /\ replPc[n][peer] = "check"
    /\ replPc' = [replPc EXCEPT ![n][peer] = IF needAppend(n, peer) THEN "round" ELSE "sleepy"]
    /\ UNCHANGED <<raftVars, messages>>

\* needAppend was false and the replicator calls tryAppendCond[peer].Wait().
replWait(n, peer) ==
    /\ Alive(n)
    /\ replPc[n][peer] = "sleepy"
    /\ replPc' = [replPc EXCEPT ![n][peer] = "wait"]
    /\ UNCHANGED <<raftVars, messages>>

\* The replicator calls appendOneRound(peer) and loops.
replRound(n, peer) ==
    /\ Alive(n)
    /\ replPc[n][peer] = "round"
    /\ appendOneRound(n, peer)
    /\ replPc' = [replPc EXCEPT ![n][peer] = "check"]

\* ---------------------------------------------------------------- applier
ApplyMsg(entry) ==
    [CommandValid |-> TRUE, Command |-> entry.Command, CommandTerm |-> entry.Term,
     CommandIndex |-> entry.Index]

\* applierSlice starting one entry early.
applierSliceFromLastApplied(n) == slice(raftLog[n], lastApplied[n], commitIndex[n] + 1)

applierSlice(n) == slice(raftLog[n], lastApplied[n] + 1, commitIndex[n] + 1)

\* The applier leaves its wait loop, copies the entries and unlocks.
applierTake(n) ==
    /\ Alive(n)
    /\ applierPc[n] = "idle"
    /\ lastApplied[n] < commitIndex[n]
    /\ applierCommit' = [applierCommit EXCEPT ![n] = commitIndex[n]]
    /\ applierEntries' = [applierEntries EXCEPT ![n] = applierSlice(n)]
    /\ applierPc' = [applierPc EXCEPT ![n] = "push"]
    /\ UNCHANGED <<lastApplied, delivered>>

\* rf.applyCh <- ApplyMsg{...}, the node lock released.
applierPush(n) ==
    /\ Alive(n)
    /\ applierPc[n] = "push"
    /\ applierEntries[n] # <<>>
    /\ delivered' = [delivered EXCEPT ![n] = Append(@, ApplyMsg(Head(applierEntries[n])))]
    /\ applierEntries' = [applierEntries EXCEPT ![n] = Tail(@)]
    /\ UNCHANGED <<lastApplied, applierPc, applierCommit>>

applierNewLastApplied(n) == Max(lastApplied[n], applierCommit[n])

\* The applier locks again and advances lastApplied.
applierDone(n) ==
    /\ Alive(n)
    /\ applierPc[n] = "push"
    /\ applierEntries[n] = <<>>
    /\ lastApplied' = [lastApplied EXCEPT ![n] = applierNewLastApplied(n)]
    /\ applierPc' = [applierPc EXCEPT ![n] = "idle"]
    /\ UNCHANGED <<applierCommit, applierEntries, delivered>>

\* --------------------------------------------------------------- MemoryKV
StorageGet(s, key) ==
    IF s[key].exist
    THEN [Value |-> s[key].value, Err |-> OK]
    ELSE [Value |-> NoValue, Err |-> ErrNoKey]

StoragePut(s, key, value) == [s EXCEPT ![key] = [exist |-> TRUE, value |-> value]]

StorageAppend(s, key, value) ==
    [s EXCEPT ![key] = [exist |-> TRUE, value |-> s[key].value \o value]]

\* --------------------------------------------------------------- KVServer
\* The KV server of node 0 and the calls of its Command handler.
KvNode == 0

CommandArgs(op, key, value, client, id) ==
    [Op |-> op, Key |-> key, Value |-> value, ClientId |-> client, CommandId |-> id]

\* What the clients send: client 1 its first command, an Append, and its
\* second, a Put; client 2 its first command, a Get. A client sends a command
\* again, under the same CommandId, when a call of it has not answered.
KvArgs ==
    {CommandArgs(Appendd, "k", <<"a">>, 1, 1),
     CommandArgs(Putt, "k", <<"b">>, 1, 2),
     CommandArgs(Gett, "k", NoValue, 2, 1)}

Op(args, seq) ==
    [OpTask |-> args.Op, Key |-> args.Key, Value |-> args.Value,
     ClientId |-> args.ClientId, CommandId |-> args.CommandId, Seq |-> seq]

NoReply == [Value |-> NoValue, Err |-> "none"]

\* Command up to startWaitChannelL: op.Seq is fresh (nrand) and its channel
\* is registered under kv.mu.
startWaitChannelL(args) ==
    /\ Len(calls) < MaxCalls
    /\ LET seq == Len(calls) + 1
       IN  /\ waitChannel' = waitChannel \cup {seq}
           /\ calls' = Append(calls, [args |-> args, pc |-> "start", signalled |-> FALSE,
                                      reply |-> NoReply])
    /\ UNCHANGED <<storage, latestTime, kvLastApplied, kvRead, effects, lockVars>>
    /\ UNCHANGED <<raftVars, messages, replPc, applierVars, startRet>>

\* Command calls kv.rf.Start(op): not the leader, it answers ErrWrongLeader
\* and leaves the channel to a goroutine to delete; the leader, it waits.
CommandStart(seq) ==
    /\ calls[seq].pc = "start"
    /\ Start(KvNode, Op(calls[seq].args, seq))
    /\ calls' = IF state[KvNode] # StateLeader
                THEN [calls EXCEPT ![seq].pc = "cleanup",
                                   ![seq].reply = [Value |-> NoValue, Err |-> ErrWrongLeader]]
                ELSE [calls EXCEPT ![seq].pc = "wait"]
    /\ UNCHANGED <<storage, latestTime, waitChannel, kvLastApplied, kvRead, effects, lockVars>>
    /\ UNCHANGED <<applierVars, startRet>>

\* The select takes the timer: ErrTimeout, the channel left to a goroutine.
CommandTimeout(seq) ==
    /\ calls[seq].pc = "wait"
    /\ calls' = [calls EXCEPT ![seq].pc = "cleanup",
                              ![seq].reply = [Value |-> NoValue, Err |-> ErrTimeout]]
    /\ UNCHANGED <<storage, latestTime, waitChannel, kvLastApplied, kvRead, effects, lockVars>>
    /\ UNCHANGED <<raftVars, messages, replPc, applierVars, startRet>>

CommandReply(args) == StorageGet(storage, args.Key)

\* The select takes the channel: the reply is read from kv.storage now.
CommandWake(seq) ==
    /\ calls[seq].pc = "wait"
    /\ calls[seq].signalled
    /\ calls' = [calls EXCEPT ![seq].pc = "done", ![seq].reply = CommandReply(calls[seq].args)]
    /\ waitChannel' = waitChannel \ {seq}
    /\ UNCHANGED <<storage, latestTime, kvLastApplied, kvRead, effects, lockVars>>
    /\ UNCHANGED <<raftVars, messages, replPc, applierVars, startRet>>

\* deleteWaitChannelL deleting nothing.
deleteWaitChannelLKeep(seq) ==
    /\ calls[seq].pc = "cleanup"
    /\ calls' = [calls EXCEPT ![seq].pc = "done"]
    /\ UNCHANGED <<storage, latestTime, waitChannel, kvLastApplied, kvRead, effects, lockVars>>
    /\ UNCHANGED <<raftVars, messages, replPc, applierVars, startRet>>

deleteWaitChannelL(seq) ==
    /\ calls[seq].pc = "cleanup"
    /\ calls' = [calls EXCEPT ![seq].pc = "done"]
    /\ waitChannel' = waitChannel \ {seq}
    /\ UNCHANGED <<storage, latestTime, kvLastApplied, kvRead, effects, lockVars>>
    /\ UNCHANGED <<raftVars, messages, replPc, applierVars, startRet>>

\* dupCommand with < for <=.
dupCommandStrict(commandId, clientId) ==
    latestTime[clientId].exist /\ commandId < latestTime[clientId].id

dupCommand(commandId, clientId) ==
    latestTime[clientId].exist /\ commandId <= latestTime[clientId].id

Modifies(curOp) == curOp.OpTask # Gett /\ ~dupCommand(curOp.CommandId, curOp.ClientId)

ApplyOp(curOp) ==
    IF curOp.OpTask = Appendd
    THEN StorageAppend(storage, curOp.Key, curOp.Value)
    ELSE IF curOp.OpTask = Putt
    THEN StoragePut(storage, curOp.Key, curOp.Value)
    ELSE storage

\* The waiter listenApplyCh signals, when it signals one.
Waiter(applyMessage) ==
    IF /\ state[KvNode] = StateLeader
       /\ applyMessage.CommandTerm = currentTerm[KvNode]
       /\ applyMessage.Command.Seq \in waitChannel
    THEN {applyMessage.Command.Seq}
    ELSE {}

\* What listenApplyCh does with a command message under kv.mu.
ApplyMessage(applyMessage) ==
    LET curOp == applyMessage.Command
    IN  IF applyMessage.CommandIndex > kvLastApplied
        THEN /\ kvLastApplied' = applyMessage.CommandIndex
             /\ IF Modifies(curOp)
                THEN /\ storage' = ApplyOp(curOp)
                     /\ latestTime' = [latestTime EXCEPT ![curOp.ClientId] =
                                          [exist |-> TRUE, id |-> curOp.CommandId]]
                     /\ effects' = Append(effects, <<curOp.ClientId, curOp.CommandId>>)
                ELSE UNCHANGED <<storage, latestTime, effects>>
             /\ calls' = [seq \in DOMAIN calls |->
                            IF seq \in Waiter(applyMessage)
                            THEN [calls[seq] EXCEPT !.signalled = TRUE]
                            ELSE calls[seq]]
        ELSE UNCHANGED <<kvLastApplied, storage, latestTime, effects, calls>>

\* One round of listenApplyCh's loop, for a command message.
listenApplyCh ==
    /\ kvRead < Len(delivered[KvNode])
    /\ kvRead' = kvRead + 1
    /\ ApplyMessage(delivered[KvNode][kvRead + 1])
    /\ UNCHANGED <<waitChannel, lockVars>>
    /\ UNCHANGED <<raftVars, messages, replPc, applierVars, startRet>>

\* kv.applyCh is made with room for one message: the applier's push waits
\* while the message before it has not been received.
ApplyChRoom == Len(delivered[KvNode]) - kvRead < ApplyChSize

\* The reply of a peer that took everything appendOneRound(n, peer) sends it
\* now reaches the leader.
PeerAck(n, peer) ==
    LET l == raftLog[n]
        prevLogIndex == nextIndex[n][peer] - 1
    IN  /\ state[n] = StateLeader
        /\ InRange(l, prevLogIndex)
        /\ matchIndex[n][peer] < lastIndex(l)
        /\ processAppendEntriesReply(
              [mtype |-> "AppendEntriesReply", to |-> n, from |-> peer,
               args |-> AppendEntriesArgs(currentTerm[n], n, prevLogIndex,
                                          getEntry(l, prevLogIndex).Term,
                                          sliceFrom(l, prevLogIndex + 1), commitIndex[n]),
               reply |-> AppendEntriesReply(currentTerm[n], TRUE, 0)])

\* --------------------------------------------------------- specifications
\* The consensus protocol from construction. The applier and the replicator
\* threads write none of the state these actions read: a replicator's round
\* is the appendOneRound a heartbeat starts at any time.
Next ==
    \/ \E n \in Peers : StartElection(n) /\ UNCHANGED <<applierVars, startRet, kvVars>>
    \/ \E m \in messages : HandleRequestVote(m) /\ UNCHANGED <<applierVars, startRet, kvVars>>
    \/ \E m \in messages : ProcessRequestVoteReply(m) /\ UNCHANGED <<applierVars, startRet, kvVars>>
    \/ \E n \in Peers : \E c \in Commands :
          CanGrow(n, MaxLogElect) /\ Start(n, c) /\ UNCHANGED <<applierVars, startRet, kvVars>>
    \/ \E n \in Peers : \E p \in Peers : Heartbeat(n, p) /\ UNCHANGED <<applierVars, startRet, kvVars>>
    \/ \E m \in messages : HandleAppendEntries(m) /\ UNCHANGED <<applierVars, startRet, kvVars>>
    \/ \E m \in messages : processAppendEntriesReply(m) /\ UNCHANGED <<applierVars, startRet, kvVars>>
    \/ \E m \in messages : Drop(m) /\ UNCHANGED <<applierVars, startRet, kvVars>>

Spec == Init /\ [][Next]_vars

\* Three states Spec reaches, from which the runs below go on without
\* another election.
Saved(terms, voted, logs) ==
    [n \in Peers |-> [currentTerm |-> terms[n], votedFor |-> voted[n], raftLog |-> logs[n]]]

Elected(roles, terms, voted, logs, nexts, got, count) ==
    /\ state = roles
    /\ currentTerm = terms
    /\ votedFor = voted
    /\ raftLog = logs
    /\ commitIndex = [n \in Peers |-> 0]
    /\ nextIndex = nexts
    /\ matchIndex = [n \in Peers |-> [p \in Peers |-> 0]]
    /\ votes = got
    /\ persisted = Saved(terms, voted, logs)
    /\ panicked = {}
    /\ elections = count
    /\ messages = {}

Quiet ==
    /\ lastApplied = [n \in Peers |-> 0]
    /\ applierPc = [n \in Peers |-> "idle"]
    /\ applierCommit = [n \in Peers |-> 0]
    /\ applierEntries = [n \in Peers |-> <<>>]
    /\ delivered = [n \in Peers |-> <<>>]
    /\ startRet = <<>>
    /\ StartKVServer

Idle ==
    /\ replPc = [n \in Peers |-> [p \in Peers |-> IF p = n THEN "none" ELSE "wait"]]
    /\ Quiet

FirstEntry == <<Entry(0, 0, Nil), Entry(1, 1, "x")>>

\* StableState: node 0 leads term 1 with the votes of both peers.
StableState ==
    Elected([n \in Peers |-> IF n = 0 THEN StateLeader ELSE StateFollower],
            [n \in Peers |-> 1],
            [n \in Peers |-> 0],
            [n \in Peers |-> newLogs],
            [n \in Peers |-> [p \in Peers |-> IF n = 0 THEN 1 ELSE 0]],
            [n \in Peers |-> IF n = 0 THEN {0, 1} ELSE {}],
            1)

\* DivergedState: node 0, Leader of term 1, appended an entry nobody received;
\* node 1 then won term 2 with the vote of node 2.
DivergedState ==
    Elected([n \in Peers |-> IF n = 2 THEN StateFollower ELSE StateLeader],
            [n \in Peers |-> IF n = 0 THEN 1 ELSE 2],
            [n \in Peers |-> IF n = 0 THEN 0 ELSE 1],
            [n \in Peers |-> IF n = 0 THEN FirstEntry ELSE newLogs],
            [n \in Peers |-> [p \in Peers |-> IF n = 2 THEN 0 ELSE 1]],
            [n \in Peers |-> IF n = 0 THEN {0, 1} ELSE IF n = 1 THEN {1, 2} ELSE {}],
            2)

\* OldTermState: as DivergedState, but node 1 received the entry of term 1
\* before it won term 2 (the reply was lost).
OldTermState ==
    Elected([n \in Peers |-> IF n = 2 THEN StateFollower ELSE StateLeader],
            [n \in Peers |-> IF n = 0 THEN 1 ELSE 2],
            [n \in Peers |-> IF n = 0 THEN 0 ELSE 1],
            [n \in Peers |-> IF n = 2 THEN newLogs ELSE FirstEntry],
            [n \in Peers |-> [p \in Peers |-> IF n = 2 THEN 0 ELSE IF n = 1 THEN 2 ELSE 1]],
            [n \in Peers |-> IF n = 0 THEN {0, 1} ELSE IF n = 1 THEN {1, 2} ELSE {}],
            2)

\* ThirdTermState: as DivergedState, then node 1 appended an entry in term 2
\* that node 2 received (the reply was lost), and node 2 won term 3 with the
\* vote of node 1. Node 0 holds an entry of term 1 at index 1, the leader one
\* of term 2.
SecondEntry == <<Entry(0, 0, Nil), Entry(1, 2, "x")>>

ThirdTermState ==
    Elected([n \in Peers |-> IF n = 1 THEN StateFollower ELSE StateLeader],
            [n \in Peers |-> IF n = 0 THEN 1 ELSE 3],
            [n \in Peers |-> IF n = 0 THEN 0 ELSE 2],
            [n \in Peers |-> IF n = 0 THEN FirstEntry ELSE SecondEntry],
            [n \in Peers |-> [p \in Peers |-> IF n = 2 THEN 2 ELSE 1]],
            [n \in Peers |-> IF n = 0 THEN {0, 1} ELSE {1, 2}],
            3)

InitStable == StableState /\ Idle

InitRepl == (StableState \/ DivergedState \/ OldTermState) /\ Idle

\* Replication in an elected cluster.
NextRepl ==
    \/ \E n \in Peers : \E c \in Commands :
          CanGrow(n, MaxLog) /\ Start(n, c) /\ UNCHANGED <<applierVars, startRet, kvVars>>
    \/ \E n \in Peers : \E p \in Peers : Heartbeat(n, p) /\ UNCHANGED <<applierVars, startRet, kvVars>>
    \/ \E m \in messages : HandleAppendEntries(m) /\ UNCHANGED <<applierVars, startRet, kvVars>>
    \/ \E m \in messages : processAppendEntriesReply(m) /\ UNCHANGED <<applierVars, startRet, kvVars>>
    \/ \E m \in messages : Drop(m) /\ UNCHANGED <<applierVars, startRet, kvVars>>

SpecRepl == InitRepl /\ [][NextRepl]_vars

\* Replication by a leader elected with entries its followers lack or hold
\* in another term, so that its first requests are refused.
InitConflict == (OldTermState \/ ThirdTermState) /\ Idle

SpecConflict == InitConflict /\ [][NextRepl]_vars

\* The appliers beside replication. What an applier pushes depends on its
\* own node alone, and nodes 1 and 2 are interchangeable in InitStable: the
\* appliers of nodes 0 and 1 stand for all three.
Appliers == {0, 1}

NextApply ==
    \/ NextRepl
    \/ \E n \in Appliers : applierTake(n) /\ UNCHANGED <<raftVars, messages, replPc, startRet, kvVars>>
    \/ \E n \in Appliers : applierPush(n) /\ UNCHANGED <<raftVars, messages, replPc, startRet, kvVars>>
    \/ \E n \in Appliers : applierDone(n) /\ UNCHANGED <<raftVars, messages, replPc, startRet, kvVars>>

SpecApply == InitStable /\ [][NextApply]_vars

\* The callers of Start and the replicator threads beside replication.
StartCall(n, c, max) ==
    /\ CanGrow(n, max)
    /\ Start(n, c)
    /\ startRet' = StartReturn(n)
    /\ UNCHANGED <<applierVars, kvVars>>

NextStart ==
    \/ \E n \in Peers : \E c \in Commands : StartCall(n, c, MaxLog)
    \/ \E n \in Peers : \E p \in Peers : Heartbeat(n, p) /\ UNCHANGED <<applierVars, startRet, kvVars>>
    \/ \E m \in messages : HandleAppendEntries(m) /\ UNCHANGED <<applierVars, startRet, kvVars>>
    \/ \E m \in messages : processAppendEntriesReply(m) /\ UNCHANGED <<applierVars, startRet, kvVars>>
    \/ \E m \in messages : Drop(m) /\ UNCHANGED <<applierVars, startRet, kvVars>>
    \/ \E n \in Peers : \E p \in Peers \ {n} : replCheck(n, p) /\ UNCHANGED <<applierVars, startRet, kvVars>>
    \/ \E n \in Peers : \E p \in Peers \ {n} : replWait(n, p) /\ UNCHANGED <<applierVars, startRet, kvVars>>
    \/ \E n \in Peers : \E p \in Peers \ {n} : replRound(n, p) /\ UNCHANGED <<applierVars, startRet, kvVars>>

SpecStart == InitStable /\ [][NextStart]_vars

\* The fair runs of the elected cluster with commands submitted to its
\* leader: no message is lost in flight, every applier keeps being scheduled,
\* the heartbeat timer keeps firing and every message in the transport is
\* handled. A replicator's round sends what the heartbeat's round sends.
LiveStart == \E c \in Commands : StartCall(0, c, MaxLogLive)

LiveHeartbeat(p) == Heartbeat(0, p) /\ UNCHANGED <<applierVars, startRet, kvVars>>

LiveHandle(n) ==
    \E m \in messages : m.to = n /\ HandleAppendEntries(m) /\ UNCHANGED <<applierVars, startRet, kvVars>>

LiveReply(n) ==
    \E m \in messages :
        m.to = n /\ processAppendEntriesReply(m) /\ UNCHANGED <<applierVars, startRet, kvVars>>

LiveApplier(n) ==
    (applierTake(n) \/ applierPush(n) \/ applierDone(n))
        /\ UNCHANGED <<raftVars, messages, replPc, startRet, kvVars>>

NextLive ==
    \/ LiveStart
    \/ \E p \in Peers : LiveHeartbeat(p)
    \/ \E n \in Peers : LiveHandle(n)
    \/ \E n \in Peers : LiveReply(n)
    \/ \E n \in Peers : LiveApplier(n)

Fairness ==
    /\ \A p \in Peers : SF_vars(LiveHeartbeat(p))
    /\ \A n \in Peers : WF_vars(LiveHandle(n))
    /\ \A n \in Peers : WF_vars(LiveReply(n))
    /\ \A n \in Peers : WF_vars(LiveApplier(n))

SpecLive == InitStable /\ [][NextLive]_vars /\ Fairness

\* The KV server of the leader in an elected cluster, with the leader's
\* applier and the acknowledgements of one peer, which make a majority.
NextKV ==
    \/ \E args \in KvArgs : startWaitChannelL(args)
    \/ \E seq \in DOMAIN calls : CommandStart(seq)
    \/ \E seq \in DOMAIN calls : CommandTimeout(seq)
    \/ \E seq \in DOMAIN calls : CommandWake(seq)
    \/ \E seq \in DOMAIN calls : deleteWaitChannelL(seq)
    \/ PeerAck(KvNode, 1) /\ UNCHANGED <<applierVars, startRet, kvVars>>
    \/ applierTake(KvNode) /\ UNCHANGED <<raftVars, messages, replPc, startRet, kvVars>>
    \/ ApplyChRoom /\ applierPush(KvNode)
                   /\ UNCHANGED <<raftVars, messages, replPc, startRet, kvVars>>
    \/ applierDone(KvNode) /\ UNCHANGED <<raftVars, messages, replPc, startRet, kvVars>>
    \/ listenApplyCh

SpecKV == InitStable /\ [][NextKV]_vars

\* The goroutines of the leader's KV server with rf.mu and kv.mu. A section
\* that takes a lock and releases it without waiting for anything between is
\* one step, taken when the lock is free; the applier, which takes rf.mu at
\* the top of its loop, and listenApplyCh, which calls GetState and sends on
\* the waiter's channel under kv.mu, hold a lock between steps.
\* The applier takes rf.mu at the top of its loop.
ApplierLock(n) ==
    /\ applierPc[n] = "idle"
    /\ rfMu = "free"
    /\ rfMu' = "applier"
    /\ UNCHANGED <<storage, latestTime, waitChannel, kvLastApplied, kvRead, calls, effects,
                   kvMu, loopPc>>
    /\ UNCHANGED <<raftVars, messages, replPc, applierVars, startRet>>

\* Nothing to apply: rf.applyCond.Wait() releases rf.mu.
ApplierWait(n) ==
    /\ applierPc[n] = "idle"
    /\ rfMu = "applier"
    /\ lastApplied[n] >= commitIndex[n]
    /\ rfMu' = "free"
    /\ UNCHANGED <<storage, latestTime, waitChannel, kvLastApplied, kvRead, calls, effects,
                   kvMu, loopPc>>
    /\ UNCHANGED <<raftVars, messages, replPc, applierVars, startRet>>

\* The applier keeping rf.mu while it sends.
ApplierCopyLocked(n) ==
    /\ rfMu = "applier"
    /\ applierTake(n)
    /\ UNCHANGED <<raftVars, messages, replPc, startRet, kvVars>>

\* The applier copies the entries and unlocks before it sends.
ApplierCopy(n) ==
    /\ rfMu = "applier"
    /\ applierTake(n)
    /\ rfMu' = "free"
    /\ UNCHANGED <<storage, latestTime, waitChannel, kvLastApplied, kvRead, calls, effects,
                   kvMu, loopPc>>
    /\ UNCHANGED <<raftVars, messages, replPc, startRet>>

\* rf.applyCh <- msg waits for room in the channel.
ApplierSend(n) ==
    /\ ApplyChRoom
    /\ applierPush(n)
    /\ UNCHANGED <<raftVars, messages, replPc, startRet, kvVars>>

\* The applier locks again, advances lastApplied and unlocks.
ApplierRelock(n) ==
    /\ rfMu = "free"
    /\ applierDone(n)
    /\ UNCHANGED <<raftVars, messages, replPc, startRet, kvVars>>

ApplierStep ==
    \/ ApplierLock(KvNode)
    \/ ApplierWait(KvNode)
    \/ ApplierCopy(KvNode)
    \/ ApplierSend(KvNode)
    \/ ApplierRelock(KvNode)

\* listenApplyCh receives the next message of kv.applyCh.
LoopReceive ==
    /\ loopPc = "recv"
    /\ kvRead < Len(delivered[KvNode])
    /\ kvRead' = kvRead + 1
    /\ loopPc' = "lock"
    /\ UNCHANGED <<storage, latestTime, waitChannel, kvLastApplied, calls, effects, rfMu, kvMu>>
    /\ UNCHANGED <<raftVars, messages, replPc, applierVars, startRet>>

LoopLock ==
    /\ loopPc = "lock"
    /\ kvMu = "free"
    /\ kvMu' = "loop"
    /\ loopPc' = "apply"
    /\ UNCHANGED <<storage, latestTime, waitChannel, kvLastApplied, kvRead, calls, effects, rfMu>>
    /\ UNCHANGED <<raftVars, messages, replPc, applierVars, startRet>>

\* The channel of a waiter, made with room for one value, has room.
WaiterRoom(applyMessage) == \A seq \in Waiter(applyMessage) : ~calls[seq].signalled

\* Under kv.mu: the message is applied, GetState takes and releases rf.mu,
\* the waiter's channel is sent on, and kv.mu is released.
LoopApply ==
    /\ loopPc = "apply"
    /\ kvMu = "loop"
    /\ LET applyMessage == delivered[KvNode][kvRead]
       IN  /\ applyMessage.CommandIndex > kvLastApplied
                => rfMu = "free" /\ WaiterRoom(applyMessage)
           /\ ApplyMessage(applyMessage)
    /\ kvMu' = "free"
    /\ loopPc' = "recv"
    /\ UNCHANGED <<waitChannel, kvRead, rfMu>>
    /\ UNCHANGED <<raftVars, messages, replPc, applierVars, startRet>>

LoopStep == LoopReceive \/ LoopLock \/ LoopApply

\* Command: each of its sections under kv.mu, and Start under rf.mu.
CommandStep ==
    \/ \E args \in KvArgs : kvMu = "free" /\ startWaitChannelL(args)
    \/ \E seq \in DOMAIN calls : rfMu = "free" /\ CommandStart(seq)
    \/ \E seq \in DOMAIN calls : CommandTimeout(seq)
    \/ \E seq \in DOMAIN calls : kvMu = "free" /\ CommandWake(seq)
    \/ \E seq \in DOMAIN calls : kvMu = "free" /\ deleteWaitChannelL(seq)

\* The reply of an AppendEntries RPC is processed under rf.mu.
HandlerStep ==
    rfMu = "free" /\ PeerAck(KvNode, 1) /\ UNCHANGED <<applierVars, startRet, kvVars>>

NextLock == ApplierStep \/ LoopStep \/ CommandStep \/ HandlerStep

SpecLock == InitStable /\ [][NextLock]_vars

\* The KV server of a node that leads or is deposed while its Command
\* handler runs: in StableState node 0 leads and peer 1 acknowledges; in
\* DivergedState the heartbeat of node 1, Leader of term 2, deposes node 0.
\* Every goroutine of the server keeps being scheduled and the timer of a
\* waiting Command fires when its channel is not signalled first.
InitWait == (StableState \/ DivergedState) /\ Idle

WaitCommand(seq) ==
    seq \in DOMAIN calls /\ (CommandStart(seq) \/ CommandTimeout(seq) \/ CommandWake(seq))

WaitCleanup(seq) == seq \in DOMAIN calls /\ deleteWaitChannelL(seq)

NextWait ==
    \/ \E args \in KvArgs : Len(calls) < MaxCallsWait /\ startWaitChannelL(args)
    \/ \E seq \in 1..MaxCallsWait : WaitCommand(seq)
    \/ \E seq \in 1..MaxCallsWait : WaitCleanup(seq)
    \/ Heartbeat(1, KvNode) /\ UNCHANGED <<applierVars, startRet, kvVars>>
    \/ \E m \in messages :
          m.to = KvNode /\ HandleAppendEntries(m) /\ UNCHANGED <<applierVars, startRet, kvVars>>
    \/ \E m \in messages : Drop(m) /\ UNCHANGED <<applierVars, startRet, kvVars>>
    \/ currentTerm[1] = currentTerm[KvNode] /\ PeerAck(KvNode, 1)
          /\ UNCHANGED <<applierVars, startRet, kvVars>>
    \/ applierTake(KvNode) /\ UNCHANGED <<raftVars, messages, replPc, startRet, kvVars>>
    \/ ApplyChRoom /\ applierPush(KvNode)
                   /\ UNCHANGED <<raftVars, messages, replPc, startRet, kvVars>>
    \/ applierDone(KvNode) /\ UNCHANGED <<raftVars, messages, replPc, startRet, kvVars>>
    \/ listenApplyCh

FairnessWait ==
    /\ \A seq \in 1..MaxCallsWait : WF_vars(WaitCommand(seq))
    /\ \A seq \in 1..MaxCallsWait : WF_vars(WaitCleanup(seq))

SpecWait == InitWait /\ [][NextWait]_vars /\ FairnessWait

\* The leader of the elected cluster with its replicator threads on a
\* transport that loses messages: the heartbeat timer keeps firing, a request
\* that keeps being in flight to a peer is in the end handled by it and a
\* reply of a peer that keeps being in flight is in the end processed. The
\* replicators and the callers of Start run at any pace.
Followers == Peers \ {0}

StallStart ==
    \E c \in Commands :
        CanGrow(0, MaxLogLive) /\ Start(0, c) /\ UNCHANGED <<applierVars, startRet, kvVars>>

StallHeartbeat(p) == Heartbeat(0, p) /\ UNCHANGED <<applierVars, startRet, kvVars>>

StallHandle(p) ==
    \E m \in messages :
        m.to = p /\ HandleAppendEntries(m) /\ UNCHANGED <<applierVars, startRet, kvVars>>

StallReply(p) ==
    \E m \in messages :
        /\ m.mtype = "AppendEntriesReply"
        /\ m.from = p
        /\ processAppendEntriesReply(m)
        /\ UNCHANGED <<applierVars, startRet, kvVars>>

NextStall ==
    \/ StallStart
    \/ \E p \in Followers : StallHeartbeat(p)
    \/ \E p \in Followers : StallHandle(p)
    \/ \E p \in Followers : StallReply(p)
    \/ \E m \in messages : Drop(m) /\ UNCHANGED <<applierVars, startRet, kvVars>>
    \/ \E p \in Followers : replCheck(0, p) /\ UNCHANGED <<applierVars, startRet, kvVars>>
    \/ \E p \in Followers : replWait(0, p) /\ UNCHANGED <<applierVars, startRet, kvVars>>
    \/ \E p \in Followers : replRound(0, p) /\ UNCHANGED <<applierVars, startRet, kvVars>>

FairnessStall ==
    /\ \A p \in Followers : SF_vars(StallHeartbeat(p))
    /\ \A p \in Followers : SF_vars(StallHandle(p))
    /\ \A p \in Followers : SF_vars(StallReply(p))

\* The replicators of node 0 wait, or have read needAppend as false and are
\* about to wait.
InitStall ==
    /\ StableState
    /\ Quiet
    /\ \E s \in {"sleepy", "wait"} :
          replPc = [n \in Peers |->
                      [p \in Peers |-> IF p = n THEN "none" ELSE IF n = 0 THEN s ELSE "wait"]]

SpecStall == InitStall /\ [][NextStall]_vars /\ FairnessStall

\* ------------------------------------------------------------------ claims
\* C1: any two nodes hold the same entry (term and command) at every index
\* above the dummy index that both have committed.
StateMachineSafety ==
    \A n \in Peers : \A m \in Peers :
        \A i \in 1..Min(commitIndex[n], commitIndex[m]) :
            /\ InRange(raftLog[n], i)
            /\ InRange(raftLog[m], i)
            /\ getEntry(raftLog[n], i) = getEntry(raftLog[m], i)

\* Two nodes have committed an entry.
TwoCommitted ==
    \E n \in Peers : \E m \in Peers \ {n} : commitIndex[n] >= 1 /\ commitIndex[m] >= 1

\* C2: on every node the messages pushed on the apply channel have strictly
\* increasing indices (so no index is pushed twice), whatever the handlers do
\* to commitIndex while the applier holds no lock.
DeliveryIncreasing ==
    \A n \in Peers : \A k \in 1..(Len(delivered[n]) - 1) :
        delivered[n][k].CommandIndex < delivered[n][k + 1].CommandIndex

\* An applier has pushed an entry, and commitIndex moved while it was pushing.
CommitMovedWhilePushing ==
    \E n \in Peers :
        /\ applierPc[n] = "push"
        /\ delivered[n] # <<>>
        /\ commitIndex[n] > applierCommit[n]

\* C3: no two nodes are Leader in the same term, and a step that leaves a
\* node's currentTerm unchanged leaves its votedFor unchanged once it is set;
\* votedFor is cleared only by a step that raises currentTerm.
ElectionSafety ==
    /\ [](\A n \in Peers : \A m \in Peers \ {n} :
            state[n] = StateLeader /\ state[m] = StateLeader
                => currentTerm[n] # currentTerm[m])
    /\ [][\A n \in Peers :
            /\ (currentTerm'[n] = currentTerm[n] /\ votedFor[n] # NoVote)
                  => votedFor'[n] = votedFor[n]
            /\ (votedFor[n] # NoVote /\ votedFor'[n] = NoVote)
                  => currentTerm'[n] > currentTerm[n]]_vars

\* A node that voted has handled an AppendEntries of its own term, the reply
\* being still in flight, and its vote stands.
VoteKeptOnAppend ==
    \E m \in messages :
        /\ m.mtype = "AppendEntriesReply"
        /\ m.args.Term = m.reply.Term
        /\ currentTerm[m.from] = m.reply.Term
        /\ votedFor[m.from] # NoVote
        /\ state[m.to] = StateLeader

\* C4: a step that changes the commitIndex of a node that is Leader before and
\* after it sets it to an index whose entry is of the leader's currentTerm and
\* that a strict majority of the peers, the leader counted, has in matchIndex.
LeaderCommitRule ==
    [][\A n \in Peers :
          (state[n] = StateLeader /\ state'[n] = StateLeader
               /\ commitIndex'[n] # commitIndex[n])
          => LET i == commitIndex'[n]
             IN  /\ InRange(raftLog'[n], i)
                 /\ getEntry(raftLog'[n], i).Term = currentTerm'[n]
                 /\ 2 * (Cardinality({p \in Peers \ {n} : matchIndex'[n][p] >= i}) + 1)
                        > Cardinality(Peers)]_vars

\* A Leader holds an entry of an older term that a majority has and that is
\* not committed.
OldTermReplicated ==
    \E n \in Peers :
        /\ state[n] = StateLeader
        /\ InRange(raftLog[n], 1)
        /\ getEntry(raftLog[n], 1).Term < currentTerm[n]
        /\ \E p \in Peers \ {n} : matchIndex[n][p] >= 1
        /\ commitIndex[n] = 0

\* C5: two logs that hold an entry of the same index and term are equal from
\* the dummy index through that index.
LogMatching ==
    \A n \in Peers : \A m \in Peers :
        \A i \in 0..Min(lastIndex(raftLog[n]), lastIndex(raftLog[m])) :
            getEntry(raftLog[n], i).Term = getEntry(raftLog[m], i).Term
                => \A j \in 0..i : getEntry(raftLog[n], j) = getEntry(raftLog[m], j)

\* Node 0 gave up its entry of term 1 for the two entries of the leader of
\* term 2.
ConflictRepaired ==
    /\ lastIndex(raftLog[0]) = 2
    /\ getEntry(raftLog[0], 1).Term = 2
    /\ raftLog[0] = raftLog[1]

\* C6: no step lowers the currentTerm of a node.
TermMonotone == [][\A n \in Peers : currentTerm'[n] >= currentTerm[n]]_vars

\* A node has answered an AppendEntries of a term below its own and kept its
\* term.
StaleRequestAnswered ==
    \E m \in messages :
        /\ m.mtype = "AppendEntriesReply"
        /\ m.args.Term < m.reply.Term
        /\ currentTerm[m.from] >= m.reply.Term

\* C7: a call of Start on a node that is not Leader returns isLeader = FALSE
\* and changes no log, term or commitIndex; on a Leader it appends one entry
\* of index lastIndex + 1 and term currentTerm, returns that index and term
\* with isLeader = TRUE while matchIndex, commitIndex and the transport are as
\* before, and wakes every replicator of the node that waits.
StartContract ==
    [][startRet' # startRet =>
          LET r == startRet'
              n == r.node
          IN  IF state[n] # StateLeader
              THEN /\ ~r.isLeader
                   /\ raftLog' = raftLog
                   /\ currentTerm' = currentTerm
                   /\ commitIndex' = commitIndex
              ELSE /\ r.isLeader
                   /\ r.index = lastIndex(raftLog[n]) + 1
                   /\ r.term = currentTerm[n]
                   /\ Len(raftLog'[n]) = Len(raftLog[n]) + 1
                   /\ SubSeq(raftLog'[n], 1, Len(raftLog[n])) = raftLog[n]
                   /\ lastEntry(raftLog'[n]).Index = r.index
                   /\ lastEntry(raftLog'[n]).Term = r.term
                   /\ lastEntry(raftLog'[n]).Command \in Commands
                   /\ \A m \in Peers \ {n} : raftLog'[m] = raftLog[m]
                   /\ <<currentTerm, commitIndex, matchIndex, messages>>'
                          = <<currentTerm, commitIndex, matchIndex, messages>>
                   /\ \A p \in Peers \ {n} :
                          replPc'[n][p] = IF replPc[n][p] = "wait" THEN "check"
                                          ELSE replPc[n][p]]_vars

\* Start on the Leader returned the index of the entry it appended, no peer
\* has that entry, and the replicators of both peers are awake.
StartReturned ==
    /\ startRet # <<>>
    /\ startRet.isLeader
    /\ lastIndex(raftLog[startRet.node]) = startRet.index
    /\ \A p \in Peers \ {startRet.node} :
          /\ matchIndex[startRet.node][p] < startRet.index
          /\ lastIndex(raftLog[p]) < startRet.index
          /\ replPc[startRet.node][p] = "check"

Changes(c, k) == {i \in DOMAIN effects : effects[i] = <<c, k>>}

Processed(k) == delivered[KvNode][k].Command

\* C8: of the apply messages with a Put or an Append of one (ClientId,
\* CommandId) at most one changes kv.storage; once one has, latestTime of the
\* client is at least the CommandId, and a later message with that pair
\* changes neither kv.storage nor kv.latestTime.
AtMostOnce ==
    /\ [](\A c \in Clients : \A k \in {a.CommandId : a \in KvArgs} :
            /\ Cardinality(Changes(c, k)) <= 1
            /\ Changes(c, k) # {} => latestTime[c].exist /\ latestTime[c].id >= k)
    /\ [][kvRead' # kvRead =>
            LET curOp == Processed(kvRead + 1)
            IN  (curOp.OpTask # Gett /\ Changes(curOp.ClientId, curOp.CommandId) # {})
                    => storage' = storage /\ latestTime' = latestTime]_vars

\* The server has processed two messages with the same Append, and the
\* Append changed the storage once.
DuplicateProcessed ==
    \E i \in 1..kvRead : \E j \in (i + 1)..kvRead :
        /\ Processed(i).OpTask = Appendd
        /\ Processed(j).OpTask = Appendd
        /\ Processed(i).ClientId = Processed(j).ClientId
        /\ Processed(i).CommandId = Processed(j).CommandId
        /\ Cardinality(Changes(Processed(i).ClientId, Processed(i).CommandId)) = 1

Answered(seq) == calls[seq].pc = "done" /\ calls[seq].reply.Err \in {OK, ErrNoKey}

\* C9: two calls of Command with a Get of the same (ClientId, CommandId) that
\* both answer from the storage answer the same value.
RepeatedGetSameValue ==
    \A i \in DOMAIN calls : \A j \in DOMAIN calls :
        (/\ i < j
         /\ calls[i].args.Op = Gett
         /\ calls[j].args.Op = Gett
         /\ calls[i].args.ClientId = calls[j].args.ClientId
         /\ calls[i].args.CommandId = calls[j].args.CommandId
         /\ Answered(i)
         /\ Answered(j))
        => calls[j].reply = calls[i].reply

Submitted(i) == startRet # <<>> /\ startRet.isLeader /\ startRet.index = i

DeliveredAt(n, i) ==
    {k \in 1..Len(delivered[n]) : delivered[n][k].CommandIndex = i}

\* C10: in the cluster of three with node 0 its leader, no failure and fair
\* delivery, no node pushes an index twice on its apply channel, and a command
\* Start accepted at index i is in the end pushed once at index i on the apply
\* channel of each of the three nodes.
EventuallyDelivered ==
    /\ [](\A n \in Peers : \A i \in 1..MaxLogLive : Cardinality(DeliveredAt(n, i)) <= 1)
    /\ \A i \in 1..MaxLogLive :
          Submitted(i) ~> (\A n \in Peers : /\ Cardinality(DeliveredAt(n, i)) = 1
                                            /\ \A k \in DeliveredAt(n, i) :
                                                  delivered[n][k].Command \in Commands)

\* The three nodes have pushed the command at the index Start returned.
DeliveredEverywhere ==
    /\ Submitted(1)
    /\ \A n \in Peers : Cardinality(DeliveredAt(n, 1)) = 1

\* C11: a Command whose call of Start finds the node not Leader answers
\* ErrWrongLeader and changes neither the log nor kv.storage nor
\* kv.latestTime; no call that has ended, by ErrWrongLeader, ErrTimeout or a
\* wake, has its Seq left in kv.waitChannel, and every Seq registered in
\* kv.waitChannel is removed in the end.
WaitChannelReleased ==
    /\ [][\A seq \in DOMAIN calls :
            (calls[seq].pc = "start" /\ calls'[seq].pc # "start"
                 /\ state[KvNode] # StateLeader)
            => /\ calls'[seq].reply.Err = ErrWrongLeader
               /\ raftLog' = raftLog
               /\ storage' = storage
               /\ latestTime' = latestTime]_vars
    /\ [](\A seq \in DOMAIN calls : calls[seq].pc = "done" => seq \notin waitChannel)
    /\ \A seq \in 1..MaxCallsWait : (seq \in waitChannel) ~> (seq \notin waitChannel)

\* The one Command called has answered ErrWrongLeader and ended: the log
\* holds the one entry it held before, and kv.waitChannel is empty.
WrongLeaderEnded ==
    /\ Len(calls) = 1
    /\ calls[1].pc = "done"
    /\ calls[1].reply.Err = ErrWrongLeader
    /\ waitChannel = {}
    /\ lastIndex(raftLog[KvNode]) = 1

\* The AppendEntries replies of peer p to node n that a step takes off the
\* transport.
RepliesTaken(n, p) ==
    {m \in messages \ messages' : m.mtype = "AppendEntriesReply" /\ m.to = n /\ m.from = p}

ReplyGuard(m) ==
    /\ m.reply.Term = currentTerm[m.to]
    /\ m.args.Term = currentTerm[m.to]
    /\ m.args.PrevLogIndex = nextIndex[m.to][m.from] - 1

\* A reply that says the peer has no entry matching at PrevLogIndex while the
\* leader has a later success of the peer covering that index is out of date.
OutOfDate(m) == ~m.reply.Success /\ m.args.PrevLogIndex <= matchIndex[m.to][m.from]

\* C12: while a node stays Leader of a term, matchIndex[p] does not decrease;
\* nextIndex[p] and matchIndex[p] change only in a step that processes a
\* reply of p with reply.Term = args.Term = currentTerm and
\* args.PrevLogIndex = nextIndex[p] - 1; and processing a reply of p that is
\* out of date does not lower nextIndex[p].
StaleReplyGuard ==
    [][\A n \in Peers : \A p \in Peers \ {n} :
          (state[n] = StateLeader /\ state'[n] = StateLeader
               /\ currentTerm'[n] = currentTerm[n])
          => /\ matchIndex'[n][p] >= matchIndex[n][p]
             /\ (nextIndex'[n][p] # nextIndex[n][p] \/ matchIndex'[n][p] # matchIndex[n][p])
                   => \E m \in RepliesTaken(n, p) : ReplyGuard(m)
             /\ \A m \in RepliesTaken(n, p) :
                   OutOfDate(m) => nextIndex'[n][p] >= nextIndex[n][p]]_vars

\* The AppendEntries requests to node n that a step takes off the transport.
RequestsTaken(n) ==
    {m \in messages \ messages' : m.mtype = "AppendEntries" /\ m.to = n}

\* The indices of the entries of a request that node n does not hold: past
\* the end of its log, or of another term.
Conflicts(n, m) ==
    {m.args.Entries[k].Index : k \in {j \in 1..Len(m.args.Entries) :
        \/ m.args.Entries[j].Index > lastIndex(raftLog[n])
        \/ getEntry(raftLog[n], m.args.Entries[j].Index).Term # m.args.Entries[j].Term}}

FirstConflict(n, m) == CHOOSE i \in Conflicts(n, m) : \A j \in Conflicts(n, m) : i <= j

\* C13: a step that handles an AppendEntries and changes the log of the
\* follower keeps the log below the first index at which an entry of the
\* request is past the end of the log or differs in term, and puts the
\* entries of the request from that index there; a request whose entries the
\* follower holds with equal terms leaves its log as it is; and no step
\* removes or replaces an entry at or below the commitIndex of its node.
ConflictScan ==
    [][\A n \in Peers :
          /\ \A m \in RequestsTaken(n) :
                IF Conflicts(n, m) = {}
                THEN raftLog'[n] = raftLog[n]
                ELSE raftLog'[n] # raftLog[n]
                        => raftLog'[n] =
                              SubSeq(raftLog[n], 1, FirstConflict(n, m))
                                 \o SelectSeq(m.args.Entries,
                                              LAMBDA e : e.Index >= FirstConflict(n, m))
          /\ (raftLog'[n] # raftLog[n] /\ messages' # messages) => RequestsTaken(n) # {}
          /\ \A i \in 1..commitIndex[n] :
                /\ InRange(raftLog'[n], i)
                /\ getEntry(raftLog'[n], i) = getEntry(raftLog[n], i)]_vars

\* A follower has accepted a request of its leader that ends below its
\* commitIndex, the reply being in flight, and holds its committed entries.
StaleRequestKeptLog ==
    \E m \in messages :
        /\ m.mtype = "AppendEntriesReply"
        /\ m.reply.Success
        /\ m.args.Term = currentTerm[m.from]
        /\ m.args.PrevLogIndex + Len(m.args.Entries) < commitIndex[m.from]
        /\ commitIndex[m.from] <= lastIndex(raftLog[m.from])

\* C14: on every node dummyIndex <= lastApplied <= commitIndex <= lastIndex,
\* and no step lowers commitIndex or lastApplied.
IndexOrder ==
    /\ [](\A n \in Peers :
            /\ dummyIndex(raftLog[n]) <= lastApplied[n]
            /\ lastApplied[n] <= commitIndex[n]
            /\ commitIndex[n] <= lastIndex(raftLog[n]))
    /\ [][\A n \in Peers :
            /\ commitIndex'[n] >= commitIndex[n]
            /\ lastApplied'[n] >= lastApplied[n]]_vars

\* A follower has applied its first entry, has committed its second, and
\* holds a request of its leader that carries a lower LeaderCommit.
FollowerAheadOfRequest ==
    \E m \in messages :
        /\ m.mtype = "AppendEntries"
        /\ state[m.to] = StateFollower
        /\ m.args.Term = currentTerm[m.to]
        /\ m.args.LeaderCommit < commitIndex[m.to]
        /\ lastApplied[m.to] >= 1
        /\ lastApplied[m.to] < commitIndex[m.to]

\* C15: on a Leader nextIndex[p] of every other peer p lies between
\* dummyIndex + 1 and lastIndex + 1, so that the prevLogIndex appendOneRound
\* computes is an index of the log; no failure reply in flight to a Leader of
\* the term carries a ConflictIndex outside these bounds; and no
\* appendOneRound has ended in a panic.
NextIndexBounds ==
    /\ \A n \in Peers : state[n] = StateLeader =>
          \A p \in Peers \ {n} :
             /\ dummyIndex(raftLog[n]) + 1 <= nextIndex[n][p]
             /\ nextIndex[n][p] <= lastIndex(raftLog[n]) + 1
             /\ InRange(raftLog[n], nextIndex[n][p] - 1)
    /\ \A m \in messages :
          (/\ m.mtype = "AppendEntriesReply"
           /\ ~m.reply.Success
           /\ state[m.to] = StateLeader
           /\ m.reply.Term = currentTerm[m.to])
          => /\ m.reply.ConflictIndex >= dummyIndex(raftLog[m.to]) + 1
             /\ m.reply.ConflictIndex <= lastIndex(raftLog[m.to]) + 1
    /\ panicked = {}

\* The leader of term 3, elected with nextIndex 2, has taken ConflictIndex 1
\* from node 0, whose entry at index 1 is of another term.
ConflictIndexAdopted ==
    /\ state[2] = StateLeader
    /\ currentTerm[0] = 3
    /\ nextIndex[2][0] = 1
    /\ matchIndex[2][0] = 0
    /\ getEntry(raftLog[0], 1).Term # getEntry(raftLog[2], 1).Term

\* The messages of one type to node n that a step takes off the transport
\* while it changes the state of a node.
HandledBy(n, type) ==
    IF raftVars' = raftVars
    THEN {}
    ELSE {m \in messages \ messages' : m.mtype = type /\ m.to = n}

\* C16: a node that processes an AppendEntries request or reply of a term
\* above its currentTerm has that term, is Follower and has voted for nobody
\* after the step; processing the reply leaves its nextIndex, matchIndex,
\* commitIndex and log as they are.
HigherTermDemotes ==
    [][\A n \in Peers :
          /\ \A m \in HandledBy(n, "AppendEntries") :
                m.args.Term > currentTerm[n]
                => /\ currentTerm'[n] = m.args.Term
                   /\ state'[n] = StateFollower
                   /\ votedFor'[n] = NoVote
          /\ \A m \in HandledBy(n, "AppendEntriesReply") :
                m.reply.Term > currentTerm[n]
                => /\ currentTerm'[n] = m.reply.Term
                   /\ state'[n] = StateFollower
                   /\ votedFor'[n] = NoVote
                   /\ nextIndex'[n] = nextIndex[n]
                   /\ matchIndex'[n] = matchIndex[n]
                   /\ commitIndex'[n] = commitIndex[n]
                   /\ raftLog'[n] = raftLog[n]]_vars

\* Node 0, Leader of term 1 that voted for itself, has met term 2: it is
\* Follower of term 2 with no vote and the log it had.
LeaderDemoted ==
    /\ state[0] = StateFollower
    /\ currentTerm[0] = 2
    /\ votedFor[0] = NoVote
    /\ raftLog[0] = FirstEntry

Covered(m) == m.args.PrevLogIndex + Len(m.args.Entries)

InMemory(n) ==
    [currentTerm |-> currentTerm[n], votedFor |-> votedFor[n], raftLog |-> raftLog[n]]

\* Node n answers an AppendEntries, returns from Start as Leader, or is
\* demoted by an AppendEntries reply in this step.
RepliesOrReturns(n) ==
    \/ \E m \in messages' \ messages : m.mtype = "AppendEntriesReply" /\ m.from = n
    \/ /\ state[n] = StateLeader
       /\ Len(raftLog'[n]) = Len(raftLog[n]) + 1
       /\ messages' = messages
    \/ \E m \in HandledBy(n, "AppendEntriesReply") : m.reply.Term > currentTerm[n]

\* C18: after a step in which a node answers an AppendEntries (on any path
\* of the handler), returns from Start as Leader, or is demoted by a reply,
\* what it persisted last is its currentTerm, votedFor and log; so the
\* persisted term of a node is at least the term of every reply of it in
\* flight, and its persisted log reaches every index it acknowledged in its
\* persisted term.
PersistBeforeReply ==
    /\ [][\A n \in Peers : RepliesOrReturns(n) => persisted'[n] = InMemory(n)']_vars
    /\ [](\A m \in messages :
            m.mtype = "AppendEntriesReply"
            => /\ persisted[m.from].currentTerm >= m.reply.Term
               /\ (m.reply.Success /\ m.reply.Term = persisted[m.from].currentTerm)
                     => lastIndex(persisted[m.from].raftLog) >= Covered(m))

\* A node has refused a request of a term below its own on the early return
\* of the handler, the reply being in flight, and what it persisted is what
\* it holds.
EarlyReturnPersisted ==
    \E m \in messages :
        /\ m.mtype = "AppendEntriesReply"
        /\ m.args.Term < m.reply.Term
        /\ persisted[m.from] = InMemory(m.from)


\* C19: on a transport that loses messages but delivers fairly, with wake-ups
\* of the replicators that may be lost, every entry in the log of the node
\* that stays Leader is in the end in the log of each peer, and matchIndex of
\* the peer reaches the leader's last index.
ReplicationNotStalled ==
    \A p \in Followers : \A i \in 1..MaxLogLive :
        (state[0] = StateLeader /\ lastIndex(raftLog[0]) >= i)
            ~> \/ state[0] # StateLeader
               \/ /\ InRange(raftLog[p], i)
                  /\ getEntry(raftLog[p], i) = getEntry(raftLog[0], i)
                  /\ matchIndex[0][p] = lastIndex(raftLog[0])

\* The wake-up of the replicator of peer 1 was lost and no message is in
\* flight: the replicator waits although the peer lacks an entry.
WakeUpLost ==
    /\ replPc[0][1] = "wait"
    /\ needAppend(0, 1)
    /\ messages = {}


\* The holder of rf.mu can take a step.
RfMuMoves == rfMu = "free" \/ ENABLED ApplierStep

\* The holder of kv.mu can take a step, or waits for rf.mu.
KvMuMoves == kvMu = "free" \/ ENABLED LoopStep \/ (loopPc = "apply" /\ rfMu # "free")

\* C20: the applier does not hold rf.mu while it sends on the apply channel;
\* the holder of rf.mu can always take a step, and so can the holder of
\* kv.mu unless it waits for rf.mu; and in no state are the applier and
\* listenApplyCh both unable to take a step, whatever the Command calls and
\* the RPC handlers do.
NoLockCycle ==
    /\ applierPc[KvNode] = "push" => rfMu # "applier"
    /\ RfMuMoves
    /\ KvMuMoves
    /\ ENABLED ApplierStep \/ ENABLED LoopStep

\* The applier waits for room in the apply channel while listenApplyCh holds
\* kv.mu with a message it is about to apply, and a Command waits for its
\* channel.
ApplierWaitsForLoop ==
    /\ applierPc[KvNode] = "push"
    /\ applierEntries[KvNode] # <<>>
    /\ ~ApplyChRoom
    /\ kvMu = "loop"
    /\ \E seq \in DOMAIN calls : calls[seq].pc = "wait"


\* Log l holds at index i the entry log k holds there.
HoldsEntryOf(l, k, i) == InRange(l, i) /\ getEntry(l, i) = getEntry(k, i)

\* C21: the log of a Leader holds, at the same index and with the same term,
\* every entry that a node whose term is not above the Leader's has committed;
\* and a step that leaves a node Leader leaves what its log held in place and
\* at most appends to it.
LeaderCompleteness ==
    /\ [](\A n \in Peers : \A m \in Peers :
            (state[n] = StateLeader /\ currentTerm[m] <= currentTerm[n])
            => \A i \in 1..commitIndex[m] : HoldsEntryOf(raftLog[n], raftLog[m], i))
    /\ [][\A n \in Peers :
            (state[n] = StateLeader /\ state'[n] = StateLeader)
            => /\ Len(raftLog'[n]) >= Len(raftLog[n])
               /\ SubSeq(raftLog'[n], 1, Len(raftLog[n])) = raftLog[n]]_vars

\* A node leads a term above 1 and holds at index 1 the entry of term 1 that
\* another node, which has not left the Leader's term behind, has committed.
LeaderHoldsCommitted ==
    \E n \in Peers : \E m \in Peers \ {n} :
        /\ state[n] = StateLeader
        /\ currentTerm[n] > 1
        /\ currentTerm[m] <= currentTerm[n]
        /\ commitIndex[m] >= 1
        /\ getEntry(raftLog[m], 1).Term = 1
        /\ HoldsEntryOf(raftLog[n], raftLog[m], 1)

====
